---- MODULE Spec2Model ----
(***************************************************************************)
(* A model of bin/migwatcher.py: the pure functions that select the latest *)
(* Migration per plan, associate DataVolumes with a VM, aggregate the      *)
(* DataVolume progress, read the pipeline progress, and the place in the   *)
(* renderers where the two progress sources are combined.                  *)
(*                                                                         *)
(* Python values are modelled as follows.                                  *)
(*   str        a sequence of one-character strings, <<"1","0","K","i">>;  *)
(*              strings that are only compared for equality (kind,         *)
(*              namespace) are TLA+ strings                                *)
(*   float      an exact rational [num, den] in lowest terms (rounding of  *)
(*              binary floating point is not modelled)                     *)
(*   None       the value None; an absent dict key is the value Missing    *)
(*   raise      a function that raises returns the value Raise             *)
(***************************************************************************)
EXTENDS Integers, Sequences, FiniteSets, TLC

VARIABLES pc, cap, all_items, plan_filter, dv, vm_name, dvas_items,
          target_ns, vm, ret, progress

vars == <<pc, cap, all_items, plan_filter, dv, vm_name, dvas_items,
          target_ns, vm, ret, progress>>

\* The value of a variable that the function under study does not read.
Unused == "unused"

\* Python's None, an absent dict key, and the outcome of a raised exception.
None == [t |-> "none"]
Missing == [t |-> "missing"]
Raise == [t |-> "raise"]

\* A Python str value.
Str(s) == [t |-> "str", v |-> s]
\* A Python int value.
Num(n) == [t |-> "num", v |-> n]

(***************************************************************************)
(* Bounds of the model.                                                    *)
(***************************************************************************)
\* Longest capacity string enumerated for to_bytes.
MaxCapLen == 3

(***************************************************************************)
(* Floats as exact rationals.                                              *)
(***************************************************************************)
RECURSIVE GCD(_, _)
GCD(a, b) == IF b = 0 THEN a ELSE GCD(b, a % b)

Rat(n, d) == LET g == GCD(n, d) IN [num |-> n \div g, den |-> d \div g]
RatInt(n) == [num |-> n, den |-> 1]
RatAdd(a, b) == Rat(a.num * b.den + b.num * a.den, a.den * b.den)
RatMul(a, b) == Rat(a.num * b.num, a.den * b.den)
RatDiv(a, b) == Rat(a.num * b.den, a.den * b.num)
RatGt0(a) == a.num > 0

(***************************************************************************)
(* Characters and strings.                                                 *)
(***************************************************************************)
DigitChars == {"0", "1", "2", "3", "4", "5", "6", "7", "8", "9"}
UpperSeq == <<"A", "B", "C", "D", "E", "F", "G", "H", "I", "J", "K", "L", "M",
              "N", "O", "P", "Q", "R", "S", "T", "U", "V", "W", "X", "Y", "Z">>
LowerSeq == <<"a", "b", "c", "d", "e", "f", "g", "h", "i", "j", "k", "l", "m",
              "n", "o", "p", "q", "r", "s", "t", "u", "v", "w", "x", "y", "z">>
UpperChars == {UpperSeq[i] : i \in 1..26}
LowerChars == {LowerSeq[i] : i \in 1..26}
AlphaChars == UpperChars \cup LowerChars
SpaceChars == {" "}

DigitVal(c) == CASE c = "0" -> 0 [] c = "1" -> 1 [] c = "2" -> 2 [] c = "3" -> 3
                 [] c = "4" -> 4 [] c = "5" -> 5 [] c = "6" -> 6 [] c = "7" -> 7
                 [] c = "8" -> 8 [] c = "9" -> 9

\* str.lower() on one character and on a string.
LowerChar(c) == IF c \in UpperChars
                THEN LowerSeq[CHOOSE i \in 1..26 : UpperSeq[i] = c]
                ELSE c
Lower(s) == [i \in 1..Len(s) |-> LowerChar(s[i])]

\* The first index at or after i whose character is not in cls (Len(s)+1 if none):
\* the end of a greedy run of a character class of a regular expression.
RECURSIVE Span(_, _, _)
Span(s, i, cls) == IF i > Len(s) \/ s[i] \notin cls THEN i ELSE Span(s, i + 1, cls)

\* The strings over an alphabet of length at most n.
RECURSIVE StringsUpTo(_, _)
StringsUpTo(alphabet, n) ==
    IF n = 0 THEN {<<>>}
    ELSE LET shorter == StringsUpTo(alphabet, n - 1)
         IN  shorter \cup {Append(s, c) : s \in shorter, c \in alphabet}

(***************************************************************************)
(* float(s) for a string of digits and dots, as to_bytes calls it on group *)
(* 1 of its regular expression: ValueError unless there is at most one dot *)
(* and at least one digit.                                                 *)
(***************************************************************************)
RECURSIVE DigitsValue(_, _)
\* The integer read from the digits of s[1..i], dots skipped.
DigitsValue(s, i) ==
    IF i = 0 THEN 0
    ELSE IF s[i] = "." THEN DigitsValue(s, i - 1)
    ELSE 10 * DigitsValue(s, i - 1) + DigitVal(s[i])

RECURSIVE Pow10(_)
Pow10(k) == IF k = 0 THEN 1 ELSE 10 * Pow10(k - 1)

float(s) ==
    LET dots == {i \in 1..Len(s) : s[i] = "."}
        digits == {i \in 1..Len(s) : s[i] \in DigitChars}
    IN  IF Cardinality(dots) > 1 \/ digits = {} \/ dots \cup digits # 1..Len(s)
        THEN Raise
        ELSE LET frac == IF dots = {} THEN 0
                         ELSE Len(s) - (CHOOSE i \in dots : TRUE)
             IN  Rat(DigitsValue(s, Len(s)), Pow10(frac))

(***************************************************************************)
(* to_bytes                                                                *)
(***************************************************************************)
\* mult.get(u, 1): the IEC and SI multipliers, 1 for a unit not in the table.
mult_get(u) ==
    CASE u = <<"b">> -> 1
      [] u = <<>> -> 1
      [] u = <<"k">> -> 1000
      [] u = <<"k", "b">> -> 1000
      [] u = <<"k", "i">> -> 1024
      [] u = <<"k", "i", "b">> -> 1024
      [] u = <<"m">> -> 1000000
      [] u = <<"m", "b">> -> 1000000
      [] u = <<"m", "i">> -> 1024 ^ 2
      [] u = <<"m", "i", "b">> -> 1024 ^ 2
      [] u = <<"g">> -> 1000000000
      [] u = <<"g", "b">> -> 1000000000
      [] u = <<"g", "i">> -> 1024 ^ 3
      [] u = <<"g", "i", "b">> -> 1024 ^ 3
      [] u = <<"t">> -> 1000 ^ 4
      [] u = <<"t", "b">> -> 1000 ^ 4
      [] u = <<"t", "i">> -> 1024 ^ 4
      [] u = <<"t", "i", "b">> -> 1024 ^ 4
      [] u = <<"p">> -> 1000 ^ 5
      [] u = <<"p", "b">> -> 1000 ^ 5
      [] u = <<"p", "i">> -> 1024 ^ 5
      [] u = <<"p", "i", "b">> -> 1024 ^ 5
      [] OTHER -> 1

\* re.match(r"^\s*([0-9.]+)\s*([A-Za-z]+)?\s*$", s): the two groups, or None.
\* The character classes are disjoint, so the greedy runs are the only match.
cap_match(s) ==
    LET i0 == Span(s, 1, SpaceChars)
        i1 == Span(s, i0, DigitChars \cup {"."})
        i2 == Span(s, i1, SpaceChars)
        i3 == Span(s, i2, AlphaChars)
        i4 == Span(s, i3, SpaceChars)
    IN  IF i1 > i0 /\ i4 = Len(s) + 1
        THEN [t |-> "match", g1 |-> SubSeq(s, i0, i1 - 1), g2 |-> SubSeq(s, i2, i3 - 1)]
        ELSE None

\* to_bytes(cap): a float, or Raise when float() raises ValueError.
to_bytes(c) ==
    IF c = None \/ c = Missing THEN RatInt(0)
    ELSE IF c.t = "num" THEN RatInt(c.v)
    ELSE LET m == cap_match(c.v)
         IN  IF m = None THEN RatInt(0)
             ELSE LET n == float(m.g1)
                      u == Lower(m.g2)
                  IN  IF n = Raise THEN Raise
                      ELSE RatMul(n, RatInt(mult_get(u)))

(***************************************************************************)
(* The capacity values to_bytes is applied to.                             *)
(***************************************************************************)
CapAlphabet == {"1", "5", ".", "K", "k", "i", "B", "X", " "}
\* Inputs named in the documentation of the function and in its design.
CapExamples == { <<"1", ".", "2", ".", "3">>, <<"1", "0", "X", "Y">>,
                 <<"g", "a", "r", "b", "a", "g", "e">>, <<"5", "1", "2", "M", "i">>,
                 <<"1", "0", "0", "K", "B">>, <<"2", "0", "K", "i", "B">>,
                 <<"1", "G", "i">>, <<"2", "G">> }
CapValues ==
    {None} \cup {Num(n) : n \in {0, 5000000}}
           \cup {Str(s) : s \in StringsUpTo(CapAlphabet, MaxCapLen) \cup CapExamples}

InitBytes ==
    /\ pc = "to_bytes"
    /\ cap \in CapValues
    /\ ret = Unused
    /\ all_items = Unused /\ plan_filter = Unused /\ dv = Unused
    /\ vm_name = Unused /\ dvas_items = Unused /\ target_ns = Unused
    /\ vm = Unused /\ progress = Unused

call_to_bytes ==
    /\ pc = "to_bytes"
    /\ ret' = to_bytes(cap)
    /\ pc' = "done"
    /\ UNCHANGED <<cap, all_items, plan_filter, dv, vm_name, dvas_items,
                   target_ns, vm, progress>>

NextBytes == call_to_bytes

SpecBytes == InitBytes /\ [][NextBytes]_vars

(***************************************************************************)
(* Claims about to_bytes.                                                  *)
(***************************************************************************)
\* The units of the table, in lower case.
RecognizedUnits ==
    {<<>>, <<"b">>}
    \cup {<<c>> : c \in {"k", "m", "g", "t", "p"}}
    \cup {<<c, "b">> : c \in {"k", "m", "g", "t", "p"}}
    \cup {<<c, "i">> : c \in {"k", "m", "g", "t", "p"}}
    \cup {<<c, "i", "b">> : c \in {"k", "m", "g", "t", "p"}}

\* 1000^k for a decimal unit and 1024^k for a binary one.
UnitMultiplier(u) ==
    IF u \in {<<>>, <<"b">>} THEN 1
    ELSE LET k == CASE u[1] = "k" -> 1 [] u[1] = "m" -> 2 [] u[1] = "g" -> 3
                    [] u[1] = "t" -> 4 [] u[1] = "p" -> 5
         IN  IF Len(u) >= 2 /\ u[2] = "i" THEN 1024 ^ k ELSE 1000 ^ k

\* The string is <number><optional unit> with a number float() accepts and a
\* unit of the table.
WellFormedCapacity(s) ==
    /\ cap_match(s) # None
    /\ float(cap_match(s).g1) # Raise
    /\ Lower(cap_match(s).g2) \in RecognizedUnits

\* C8: to_bytes yields 0 for every string that is not <number><optional unit>,
\* for a number followed by a unit outside the table ("10XY") and for a
\* malformed number ("1.2.3"); for a unit of the table it yields the number
\* times the unit's multiplier.
C8_MalformedIsZero ==
    pc = "done" /\ cap.t = "str" =>
        /\ ret # Raise
        /\ (~WellFormedCapacity(cap.v) => ret = RatInt(0))
        /\ (WellFormedCapacity(cap.v) =>
               ret = RatMul(float(cap_match(cap.v).g1),
                            RatInt(UnitMultiplier(Lower(cap_match(cap.v).g2)))))

(***************************************************************************)
(* Ordering of str values: Python compares strings code point by code      *)
(* point, a proper prefix being smaller.                                   *)
(***************************************************************************)
\* ord(c) for the characters that occur in names and timestamps.
Ord(c) ==
    IF c \in DigitChars THEN 48 + DigitVal(c)
    ELSE IF c \in UpperChars THEN 64 + (CHOOSE i \in 1..26 : UpperSeq[i] = c)
    ELSE IF c \in LowerChars THEN 96 + (CHOOSE i \in 1..26 : LowerSeq[i] = c)
    ELSE CASE c = " " -> 32 [] c = "%" -> 37 [] c = "-" -> 45 [] c = "." -> 46
           [] c = "/" -> 47 [] c = ":" -> 58

RECURSIVE StrLessFrom(_, _, _)
StrLessFrom(a, b, i) ==
    IF i > Len(b) THEN FALSE
    ELSE IF i > Len(a) THEN TRUE
    ELSE IF a[i] # b[i] THEN Ord(a[i]) < Ord(b[i])
    ELSE StrLessFrom(a, b, i + 1)

\* a < b on str values.
StrLess(a, b) == StrLessFrom(a, b, 1)

(***************************************************************************)
(* sorted(lst, key=...): Python's sort is stable.  The list is given as    *)
(* <<key, element>> pairs; an element goes after every element already     *)
(* placed whose key is not greater than its own.                           *)
(***************************************************************************)
RECURSIVE InsertByKey(_, _)
InsertByKey(sortedPairs, p) ==
    IF sortedPairs = <<>> THEN <<p>>
    ELSE LET last == sortedPairs[Len(sortedPairs)]
         IN  IF StrLess(p[1], last[1])
             THEN Append(InsertByKey(SubSeq(sortedPairs, 1, Len(sortedPairs) - 1), p), last)
             ELSE Append(sortedPairs, p)

RECURSIVE SortPairs(_, _)
\* The first n pairs, sorted.
SortPairs(pairs, n) ==
    IF n = 0 THEN <<>> ELSE InsertByKey(SortPairs(pairs, n - 1), pairs[n])

sorted(pairs) == LET s == SortPairs(pairs, Len(pairs)) IN [i \in 1..Len(s) |-> s[i][2]]

(***************************************************************************)
(* latest_migrations_by_plan                                               *)
(***************************************************************************)
\* A record of the mixed list: its kind, metadata.name, metadata.creationTimestamp
\* and spec.plan.name; ts and plan are a Str or Missing (the key, or a dict on
\* the way to it, is absent).
Item(kind, name, ts, plan) == [kind |-> kind, name |-> name, ts |-> ts, plan |-> plan]

\* x.get("metadata", {}).get("creationTimestamp", "")
creation_key(it) == IF it.ts = Missing THEN <<>> ELSE it.ts.v

\* m.get("spec", {}).get("plan", {}).get("name", "")
plan_key(it) == IF it.plan = Missing THEN <<>> ELSE it.plan.v

\* `x in lst` for a list of str.
InList(x, lst) == \E i \in 1..Len(lst) : lst[i] = x

\* The first loop's test of one record: it is appended to by_plan[plan_name].
is_grouped(it, filter) ==
    /\ it.kind = "Migration"
    /\ it.plan # Missing /\ it.plan.v # <<>>
    /\ (filter # <<>> => InList(it.plan.v, filter))

RECURSIVE by_plan_keys(_, _, _)
\* The keys of by_plan after the first n records, in insertion order.
by_plan_keys(items, filter, n) ==
    IF n = 0 THEN <<>>
    ELSE LET keys == by_plan_keys(items, filter, n - 1)
             it == items[n]
         IN  IF is_grouped(it, filter) /\ ~InList(it.plan.v, keys)
             THEN Append(keys, it.plan.v)
             ELSE keys

\* by_plan[plan]: the grouped records of the plan, in input order.
by_plan_list(items, filter, plan) ==
    LET Test(it) == is_grouped(it, filter) /\ it.plan.v = plan
    IN  SelectSeq(items, Test)

\* A variant of latest_of that takes lst_sorted[0], the earliest record.
latest_of_first(lst) ==
    LET s == sorted([i \in 1..Len(lst) |-> <<creation_key(lst[i]), lst[i]>>])
    IN  s[1]

\* lst_sorted[-1] of sorted(lst, key=creationTimestamp).
latest_of(lst) ==
    LET s == sorted([i \in 1..Len(lst) |-> <<creation_key(lst[i]), lst[i]>>])
    IN  s[Len(s)]

\* A variant of latest_migrations_by_plan without the final sort by plan name.
latest_migrations_unsorted(items, filter) ==
    LET keys == by_plan_keys(items, filter, Len(items))
    IN  [k \in 1..Len(keys) |-> latest_of(by_plan_list(items, filter, keys[k]))]

latest_migrations_by_plan(items, filter) ==
    LET keys == by_plan_keys(items, filter, Len(items))
        latest == [k \in 1..Len(keys) |-> latest_of(by_plan_list(items, filter, keys[k]))]
    IN  sorted([k \in 1..Len(latest) |-> <<plan_key(latest[k]), latest[k]>>])

\* Bound: the longest mixed list.
MaxItems == 3

TimestampValues == {Missing, Str(<<"1", "0">>), Str(<<"2">>)}
ItemValues ==
    {Item("Migration", n, ts, Str(p)) :
        n \in {"m1", "m2"}, ts \in TimestampValues, p \in {<<"a">>, <<"b">>}}
    \cup {Item("Migration", "m3", Str(<<"2">>), Missing),
          Item("Migration", "m4", Str(<<"2">>), Str(<<>>)),
          Item("Plan", "c", Str(<<"2">>), Str(<<"c">>))}
FilterValues == {<<>>, <<<<"a">>>>, <<<<"c">>, <<"b">>>>}

RECURSIVE ListsUpTo(_, _)
\* The lists of elements of S of length at most n.
ListsUpTo(S, n) ==
    IF n = 0 THEN {<<>>}
    ELSE LET shorter == ListsUpTo(S, n - 1)
         IN  shorter \cup {Append(l, x) : l \in shorter, x \in S}

InitLatest ==
    /\ pc = "latest_migrations_by_plan"
    /\ all_items \in ListsUpTo(ItemValues, MaxItems)
    /\ plan_filter \in FilterValues
    /\ ret = Unused
    /\ cap = Unused /\ dv = Unused /\ vm_name = Unused /\ dvas_items = Unused
    /\ target_ns = Unused /\ vm = Unused /\ progress = Unused

call_latest_migrations_by_plan ==
    /\ pc = "latest_migrations_by_plan"
    /\ ret' = latest_migrations_by_plan(all_items, plan_filter)
    /\ pc' = "done"
    /\ UNCHANGED <<cap, all_items, plan_filter, dv, vm_name, dvas_items,
                   target_ns, vm, progress>>

NextLatest == call_latest_migrations_by_plan

SpecLatest == InitLatest /\ [][NextLatest]_vars

(***************************************************************************)
(* Claims about latest_migrations_by_plan.                                 *)
(***************************************************************************)
PlanNames == {<<"a">>, <<"b">>, <<"c">>, <<>>}

\* The positions of the Migration records that reference plan P and pass the filter.
RecordsOf(P) ==
    {i \in 1..Len(all_items) :
        /\ all_items[i].kind = "Migration"
        /\ all_items[i].plan = Str(P)
        /\ (plan_filter = <<>> \/ \E f \in 1..Len(plan_filter) : plan_filter[f] = P)}

\* The creationTimestamp string of a record, the empty string when it has none.
TimestampOf(it) == IF it.ts = Missing THEN <<>> ELSE it.ts.v

\* The last position among those of P whose timestamp is the lexicographic maximum.
LastMaxOf(P) ==
    CHOOSE i \in RecordsOf(P) :
        \A j \in RecordsOf(P) :
            /\ ~StrLess(TimestampOf(all_items[i]), TimestampOf(all_items[j]))
            /\ (TimestampOf(all_items[j]) = TimestampOf(all_items[i]) => j <= i)

\* C2: for every plan P referenced by a Migration record that passes the filter,
\* the result holds exactly one record of P; its creationTimestamp is the
\* lexicographic maximum over P's records (none counts as ""), and among the
\* records with that timestamp it is the last one of the input.
C2_LatestPerPlan ==
    pc = "done" =>
        \A P \in PlanNames \ {<<>>} :
            RecordsOf(P) # {} =>
                /\ Cardinality({k \in 1..Len(ret) : ret[k].plan = Str(P)}) = 1
                /\ \A k \in 1..Len(ret) :
                       ret[k].plan = Str(P) => ret[k] = all_items[LastMaxOf(P)]

\* A plan with three records, two of them sharing the maximum timestamp under
\* different names, and an earlier one that sorts lower only as a string.
C2_Witness ==
    /\ pc = "done"
    /\ Len(all_items) = 3
    /\ all_items[1] = Item("Migration", "m2", Str(<<"2">>), Str(<<"a">>))
    /\ all_items[2] = Item("Migration", "m1", Str(<<"1", "0">>), Str(<<"a">>))
    /\ all_items[3] = Item("Migration", "m1", Str(<<"2">>), Str(<<"a">>))
    /\ ret = <<all_items[3]>>

\* C3: the result is sorted by plan name strictly ascending, and its plan names
\* are exactly those referenced by a Migration record with a non-empty plan
\* reference that is in plan_filter when plan_filter is non-empty.
C3_SortedExactPlans ==
    pc = "done" =>
        /\ \A k \in 1..(Len(ret) - 1) : StrLess(ret[k].plan.v, ret[k + 1].plan.v)
        /\ {ret[k].plan : k \in 1..Len(ret)}
             = {Str(P) : P \in {Q \in PlanNames \ {<<>>} : RecordsOf(Q) # {}}}

\* Plan b is met before plan a, next to a Plan-kind record and a Migration without
\* a plan reference; the filter excludes nothing.
C3_Witness ==
    /\ pc = "done"
    /\ plan_filter = <<>>
    /\ Len(all_items) = 3
    /\ all_items[1].plan = Str(<<"b">>) /\ all_items[1].kind = "Migration"
    /\ all_items[2].plan = Str(<<"a">>) /\ all_items[2].kind = "Migration"
    /\ all_items[3].kind = "Plan"
    /\ ret = <<all_items[2], all_items[1]>>

(***************************************************************************)
(* dv_selector_matches                                                     *)
(***************************************************************************)
\* `sub in s` for str values.
Contains(s, sub) ==
    \E i \in 0..(Len(s) - Len(sub)) : SubSeq(s, i + 1, i + Len(sub)) = sub

\* The metadata of a DataVolume: namespace (a string or Missing), name,
\* labels vmID, vmName and forklift.konveyor.io/vmName (each a Str or Missing),
\* and the ownerReferences list of [kind, name].
Meta(ns, name, vmID, vmName, fvmName, owners) ==
    [namespace |-> ns, name |-> name,
     labels |-> [vmID |-> vmID, vmName |-> vmName, fvmName |-> fvmName],
     ownerReferences |-> owners]

\* labels.get(key, "") for a label that is a Str or Missing.
label_or_empty(l) == IF l = Missing THEN <<>> ELSE l.v

\* A variant of dv_selector_matches without the vmID/vmName label rule.
dv_selector_matches_no_label(meta, vmname) ==
    \/ label_or_empty(meta.labels.fvmName) = vmname
    \/ \E r \in 1..Len(meta.ownerReferences) :
          /\ meta.ownerReferences[r].kind = "VirtualMachine"
          /\ meta.ownerReferences[r].name = Str(vmname)
    \/ vmname # <<>> /\ Contains(label_or_empty(meta.name), vmname)

dv_selector_matches(meta, vmname) ==
    \/ /\ label_or_empty(meta.labels.vmID) # <<>>
       /\ label_or_empty(meta.labels.vmName) = vmname
    \/ label_or_empty(meta.labels.fvmName) = vmname
    \/ \E r \in 1..Len(meta.ownerReferences) :
          /\ meta.ownerReferences[r].kind = "VirtualMachine"
          /\ meta.ownerReferences[r].name = Str(vmname)
    \/ vmname # <<>> /\ Contains(label_or_empty(meta.name), vmname)

\* Bound: the longest VM name and DataVolume name.
MaxNameLen == 2

NameValues == StringsUpTo({"a", "b"}, MaxNameLen)
LabelValues == {Missing, Str(<<>>), Str(<<"a">>), Str(<<"b">>)}
OwnerValues == {<<>>,
                <<[kind |-> "VirtualMachine", name |-> Str(<<"a">>)]>>,
                <<[kind |-> "Pod", name |-> Str(<<"a">>)]>>,
                <<[kind |-> "Pod", name |-> Str(<<"a">>)],
                  [kind |-> "VirtualMachine", name |-> Str(<<"b">>)]>>}
MetaValues ==
    {Meta("tgt", name, vmID, vmName, fvmName, owners) :
        name \in {Missing} \cup {Str(n) : n \in NameValues},
        vmID \in {Missing, Str(<<>>), Str(<<"1">>)},
        vmName \in LabelValues, fvmName \in LabelValues, owners \in OwnerValues}

InitSel ==
    /\ pc = "dv_selector_matches"
    /\ dv \in MetaValues
    /\ vm_name \in NameValues
    /\ ret = Unused
    /\ cap = Unused /\ all_items = Unused /\ plan_filter = Unused
    /\ dvas_items = Unused /\ target_ns = Unused /\ vm = Unused /\ progress = Unused

call_dv_selector_matches ==
    /\ pc = "dv_selector_matches"
    /\ ret' = dv_selector_matches(dv, vm_name)
    /\ pc' = "done"
    /\ UNCHANGED <<cap, all_items, plan_filter, dv, vm_name, dvas_items,
                   target_ns, vm, progress>>

NextSel == call_dv_selector_matches

SpecSel == InitSel /\ [][NextSel]_vars

\* No rule other than the vmName label can associate dv with vm_name.
OnlyVmNameLabel ==
    /\ dv.labels.fvmName # Str(vm_name)
    /\ (dv.labels.fvmName = Missing => vm_name # <<>>)
    /\ \A r \in 1..Len(dv.ownerReferences) :
          ~(dv.ownerReferences[r].kind = "VirtualMachine"
            /\ dv.ownerReferences[r].name = Str(vm_name))
    /\ (vm_name = <<>> \/ dv.name = Missing \/ ~Contains(dv.name.v, vm_name))

\* C4 as stated: whenever labels["vmName"] equals the VM name the transfer
\* matches, whatever its other labels, owner references and name are.
C4_Original ==
    pc = "done" /\ dv.labels.vmName = Str(vm_name) => ret = TRUE

\* C4 amended: when labels["vmName"] equals the VM name and labels["vmID"] is
\* present and non-empty the transfer matches, whatever else it carries; when
\* labels["vmID"] is absent or empty the vmName label alone does not match.
C4_VmNameNeedsVmID ==
    pc = "done" /\ dv.labels.vmName = Str(vm_name) =>
        /\ (dv.labels.vmID \notin {Missing, Str(<<>>)} => ret = TRUE)
        /\ (dv.labels.vmID \in {Missing, Str(<<>>)} /\ OnlyVmNameLabel => ret = FALSE)

\* The vmName label equals the VM name, vmID is set, and nothing else matches.
C4_Witness ==
    /\ pc = "done"
    /\ vm_name = <<"b">>
    /\ dv.labels.vmName = Str(vm_name)
    /\ dv.labels.vmID = Str(<<"1">>)
    /\ OnlyVmNameLabel
    /\ ret = TRUE

\* C11: a VM with an empty name is associated with no transfer by the label
\* and name heuristics: for vm_name = "" dv_selector_matches returns false for
\* every transfer without an owner reference of kind VirtualMachine and an
\* empty name, in particular for one with no labels and no owner references.
C11_EmptyNameNoMatch ==
    /\ pc = "done"
    /\ vm_name = <<>>
    /\ \A r \in 1..Len(dv.ownerReferences) :
          ~(dv.ownerReferences[r].kind = "VirtualMachine"
            /\ dv.ownerReferences[r].name = Str(<<>>))
    => ret = FALSE

(***************************************************************************)
(* dv_progress_for_vm                                                      *)
(***************************************************************************)
\* A DataVolume: its metadata, status.progress (a Str, Missing when status or
\* the key is absent, None or a Num when the field has the wrong type) and
\* spec.storage.resources.requests.storage (a Str, a Num, None or Missing).
DataVolume(meta, prog, storage) == [metadata |-> meta, progress |-> prog, storage |-> storage]

\* The returned tuple (percent, copiedBytes, totalBytes).
Tuple3(percent, copied, total) ==
    [t |-> "tuple", percent |-> percent, copied |-> copied, total |-> total]
Unavailable == Tuple3(None, None, None)

\* s.rstrip("%")
RECURSIVE rstrip_percent(_)
rstrip_percent(s) ==
    IF s # <<>> /\ s[Len(s)] = "%" THEN rstrip_percent(SubSeq(s, 1, Len(s) - 1)) ELSE s

\* Lines 255-259: the percentage of one DataVolume, Raise when progress is not
\* a str (None.rstrip and int.rstrip raise AttributeError outside the try).
\* float() is applied to strings without sign, exponent, blank or letters of
\* "nan"/"inf", for which it accepts exactly what float(s) above accepts.
dv_pct(d) ==
    IF d.progress = Missing THEN RatInt(0)
    ELSE IF d.progress.t # "str" THEN Raise
    ELSE LET f == float(rstrip_percent(d.progress.v))
         IN  IF f = Raise THEN RatInt(0) ELSE f

\* dv_candidates: the positions of the DataVolumes of the target namespace that
\* dv_selector_matches associates with the VM.
dv_candidates(items, ns, vmname) ==
    {i \in 1..Len(items) :
        /\ items[i].metadata.namespace = ns
        /\ dv_selector_matches(items[i].metadata, vmname)}

RECURSIVE dv_loop(_, _, _)
\* The loop over the candidates among the first n DataVolumes: the running
\* any_size, total and copied, or Raise.
dv_loop(items, cands, n) ==
    IF n = 0 THEN [any_size |-> FALSE, total |-> RatInt(0), copied |-> RatInt(0)]
    ELSE LET acc == dv_loop(items, cands, n - 1)
         IN  IF acc = Raise \/ n \notin cands THEN acc
             ELSE LET pct == dv_pct(items[n])
                  IN  IF pct = Raise THEN Raise
                      ELSE LET c == to_bytes(items[n].storage)
                           IN  IF c = Raise THEN Raise
                               ELSE IF RatGt0(c)
                               THEN [any_size |-> TRUE,
                                     total |-> RatAdd(acc.total, c),
                                     copied |-> RatAdd(acc.copied,
                                                  RatMul(c, RatDiv(pct, RatInt(100))))]
                               ELSE acc

RECURSIVE pct_sum(_, _, _)
\* The sum of the percentages of the candidates among the first n DataVolumes.
pct_sum(items, cands, n) ==
    IF n = 0 THEN RatInt(0)
    ELSE IF n \in cands THEN RatAdd(pct_sum(items, cands, n - 1), dv_pct(items[n]))
    ELSE pct_sum(items, cands, n - 1)

\* A variant of dv_progress_for_vm that reports the unweighted mean of the
\* percentages instead of copied / total.
dv_progress_for_vm_mean(items, ns, vmname) ==
    LET cands == dv_candidates(items, ns, vmname)
        acc == dv_loop(items, cands, Len(items))
    IN  IF cands = {} THEN Unavailable
        ELSE IF acc = Raise THEN Raise
        ELSE IF ~acc.any_size \/ ~RatGt0(acc.total) THEN Unavailable
        ELSE Tuple3(RatDiv(pct_sum(items, cands, Len(items)), RatInt(Cardinality(cands))),
                    acc.copied, acc.total)

\* A variant of dv_progress_for_vm that keeps the mean percentage when no
\* candidate has a capacity.
dv_progress_for_vm_pct_only(items, ns, vmname) ==
    LET cands == dv_candidates(items, ns, vmname)
        acc == dv_loop(items, cands, Len(items))
    IN  IF cands = {} THEN Unavailable
        ELSE IF acc = Raise THEN Raise
        ELSE IF ~acc.any_size \/ ~RatGt0(acc.total)
        THEN Tuple3(RatDiv(pct_sum(items, cands, Len(items)), RatInt(Cardinality(cands))),
                    None, None)
        ELSE Tuple3(RatMul(RatDiv(acc.copied, acc.total), RatInt(100)),
                    acc.copied, acc.total)

\* A variant of dv_progress_for_vm that is Unavailable when no candidate has a
\* progress string that parses.
dv_progress_for_vm_absent(items, ns, vmname) ==
    LET cands == dv_candidates(items, ns, vmname)
        acc == dv_loop(items, cands, Len(items))
        parsed == {i \in cands : /\ items[i].progress # Missing
                                 /\ items[i].progress.t = "str"
                                 /\ float(rstrip_percent(items[i].progress.v)) # Raise}
    IN  IF cands = {} THEN Unavailable
        ELSE IF acc = Raise THEN Raise
        ELSE IF parsed = {} \/ ~acc.any_size \/ ~RatGt0(acc.total) THEN Unavailable
        ELSE Tuple3(RatMul(RatDiv(acc.copied, acc.total), RatInt(100)),
                    acc.copied, acc.total)

dv_progress_for_vm(items, ns, vmname) ==
    LET cands == dv_candidates(items, ns, vmname)
        acc == dv_loop(items, cands, Len(items))
    IN  IF cands = {} THEN Unavailable
        ELSE IF acc = Raise THEN Raise
        ELSE IF ~acc.any_size \/ ~RatGt0(acc.total) THEN Unavailable
        ELSE Tuple3(RatMul(RatDiv(acc.copied, acc.total), RatInt(100)),
                    acc.copied, acc.total)

\* Bound: the longest list of DataVolumes.
MaxDvs == 2

\* The VM whose progress is asked for, and DataVolume metadata that is and is
\* not associated with it in the target namespace.
TheVm == <<"a">>
MetaMatch == Meta("tgt", Str(<<"x">>), Missing, Missing, Str(TheVm), <<>>)
MetaOtherNs == Meta("other", Str(<<"x">>), Missing, Missing, Str(TheVm), <<>>)
MetaNoMatch == Meta("tgt", Str(<<"x">>), Missing, Str(TheVm), Str(<<"b">>), <<>>)

P50 == Str(<<"5", "0", "%">>)
P25 == Str(<<"2", "5", "%">>)
PNA == Str(<<"N", "/", "A">>)
Cap10Ki == Str(<<"1", "0", "K", "i">>)
Cap20Ki == Str(<<"2", "0", "K", "i">>)
CapBad == Str(<<"1", ".", "2", ".", "3">>)

DvValues ==
    {DataVolume(MetaMatch, p, c) :
        p \in {Missing, P50, P25, PNA, None, Num(37)},
        c \in {Missing, Cap10Ki, Cap20Ki, CapBad}}
    \cup {DataVolume(MetaOtherNs, P50, Cap10Ki), DataVolume(MetaNoMatch, P50, Cap10Ki)}

InitDv ==
    /\ pc = "dv_progress_for_vm"
    /\ dvas_items \in ListsUpTo(DvValues, MaxDvs)
    /\ target_ns = "tgt"
    /\ vm_name = TheVm
    /\ ret = Unused
    /\ cap = Unused /\ all_items = Unused /\ plan_filter = Unused /\ dv = Unused
    /\ vm = Unused /\ progress = Unused

call_dv_progress_for_vm ==
    /\ pc = "dv_progress_for_vm"
    /\ ret' = dv_progress_for_vm(dvas_items, target_ns, vm_name)
    /\ pc' = "done"
    /\ UNCHANGED <<cap, all_items, plan_filter, dv, vm_name, dvas_items,
                   target_ns, vm, progress>>

NextDv == call_dv_progress_for_vm

SpecDv == InitDv /\ [][NextDv]_vars

(***************************************************************************)
(* Claims about dv_progress_for_vm.                                        *)
(***************************************************************************)
\* The positions of the transfers associated with the VM.
Associated ==
    {i \in 1..Len(dvas_items) :
        /\ dvas_items[i].metadata.namespace = target_ns
        /\ dv_selector_matches(dvas_items[i].metadata, vm_name)}

\* The transfer's progress is a string that parses as a percentage.
HasParsedPct(d) ==
    /\ d.progress # Missing
    /\ d.progress.t = "str"
    /\ float(rstrip_percent(d.progress.v)) # Raise

\* The parsed percentage, 0 when the progress is missing or does not parse.
PctOrZero(d) == IF HasParsedPct(d) THEN float(rstrip_percent(d.progress.v)) ELSE RatInt(0)

Parsed == {i \in Associated : HasParsedPct(dvas_items[i])}
WithCapacity == {i \in Associated : RatGt0(to_bytes(dvas_items[i].storage))}

RECURSIVE SumPct(_)
SumPct(S) ==
    IF S = {} THEN RatInt(0)
    ELSE LET i == CHOOSE j \in S : TRUE
         IN  RatAdd(PctOrZero(dvas_items[i]), SumPct(S \ {i}))

RECURSIVE SumCapacity(_)
SumCapacity(S) ==
    IF S = {} THEN RatInt(0)
    ELSE LET i == CHOOSE j \in S : TRUE
         IN  RatAdd(to_bytes(dvas_items[i].storage), SumCapacity(S \ {i}))

RECURSIVE SumCopied(_)
SumCopied(S) ==
    IF S = {} THEN RatInt(0)
    ELSE LET i == CHOOSE j \in S : TRUE
         IN  RatAdd(RatMul(to_bytes(dvas_items[i].storage),
                           Rat(PctOrZero(dvas_items[i]).num,
                               100 * PctOrZero(dvas_items[i]).den)),
                    SumCopied(S \ {i}))

\* The function returned a tuple with a percentage in it.
ReturnedPercent == pc = "done" /\ ret.t = "tuple" /\ ret.percent # None

\* Two transfers at 50% of 10Ki and 25% of 20Ki.
TwoTransfers ==
    dvas_items = <<DataVolume(MetaMatch, P50, Cap10Ki), DataVolume(MetaMatch, P25, Cap20Ki)>>

\* C5 as stated: the returned percent is the unweighted arithmetic mean of the
\* parsed percentages of the associated transfers (37.5 for TwoTransfers); it is
\* stated here for the transfers that all have a parsed percentage and a capacity.
C5_Original ==
    ReturnedPercent /\ Parsed # {} /\ Parsed = Associated /\ WithCapacity = Associated =>
        RatMul(ret.percent, RatInt(Cardinality(Parsed))) = SumPct(Parsed)

\* C5 amended: the returned percent is weighted by capacity: it is
\* 100 * copiedBytes / totalBytes, where totalBytes is the sum of the capacities
\* and copiedBytes the sum of capacity * percent / 100 over the associated
\* transfers with capacity > 0 (a missing or unparsable percentage counting as
\* 0); TwoTransfers gives percent 100/3, copiedBytes 10Ki and totalBytes 30Ki.
C5_WeightedPercent ==
    ReturnedPercent =>
        /\ ret.total = SumCapacity(WithCapacity)
        /\ ret.copied = SumCopied(WithCapacity)
        /\ RatMul(ret.percent, ret.total) = RatMul(RatInt(100), ret.copied)
        /\ (TwoTransfers => ret = Tuple3(Rat(100, 3), RatInt(10 * 1024), RatInt(30 * 1024)))

C5_Witness ==
    /\ pc = "done"
    /\ TwoTransfers
    /\ ret.percent = Rat(100, 3)
    /\ SumPct(Parsed) = RatInt(75)

\* C7 as stated: with a parsed percentage but no capacity > 0 among the
\* associated transfers the result is the mean percentage alone.
C7_Original ==
    pc = "done" /\ ret # Raise /\ Parsed # {} /\ WithCapacity = {} =>
        ret = Tuple3(RatDiv(SumPct(Parsed), RatInt(Cardinality(Parsed))), None, None)

\* C7 amended: with a parsed percentage but no capacity > 0 among the associated
\* transfers the result is Unavailable (None, None, None); a percentage is
\* returned only together with the bytes of a transfer with capacity > 0.
C7_NoCapacityUnavailable ==
    /\ (pc = "done" /\ ret # Raise /\ Parsed # {} /\ WithCapacity = {} => ret = Unavailable)
    /\ (ReturnedPercent => WithCapacity # {} /\ ret.total # None /\ ret.copied # None)

C7_Witness ==
    /\ pc = "done"
    /\ dvas_items = <<DataVolume(MetaMatch, P50, Missing)>>
    /\ Parsed = {1}
    /\ ret = Unavailable

\* C9: the functions never raise on malformed input; each returns its
\* no-information value.
C9_NeverRaises == pc = "done" => ret # Raise

(***************************************************************************)
(* first_pipeline_progress                                                 *)
(***************************************************************************)
\* The progress dict of a pipeline stage: each of its four keys holds a Num, a
\* Str, or is Missing (the key is absent or null; prog.get gives None for both).
Progress(totalBytes, total, copiedBytes, current) ==
    [t |-> "dict", totalBytes |-> totalBytes, total |-> total,
     copiedBytes |-> copiedBytes, current |-> current]
\* stage.get("progress") or {} of a stage without progress.
NoProgress == Progress(Missing, Missing, Missing, Missing)

\* total = prog.get("totalBytes"); if total is None: total = prog.get("total")
stage_total(prog) == IF prog.totalBytes = Missing THEN prog.total ELSE prog.totalBytes
\* copied = prog.get("copiedBytes"); if copied is None: copied = prog.get("current")
stage_copied(prog) == IF prog.copiedBytes = Missing THEN prog.current ELSE prog.copiedBytes

\* isinstance(total, int) and total > 0 and isinstance(copied, int) and copied >= 0
stage_usable(prog) ==
    /\ stage_total(prog).t = "num" /\ stage_total(prog).v > 0
    /\ stage_copied(prog).t = "num" /\ stage_copied(prog).v >= 0

Pair(copied, total) == [t |-> "pair", copied |-> copied, total |-> total]

RECURSIVE pipeline_from(_, _)
\* The loop over the stages from position i on.
pipeline_from(pipeline, i) ==
    IF i > Len(pipeline) THEN None
    ELSE IF stage_usable(pipeline[i])
    THEN Pair(stage_copied(pipeline[i]).v, stage_total(pipeline[i]).v)
    ELSE pipeline_from(pipeline, i + 1)

RECURSIVE pipeline_back_from(_, _)
\* The same loop run from the last stage to the first.
pipeline_back_from(pipeline, i) ==
    IF i < 1 THEN None
    ELSE IF stage_usable(pipeline[i])
    THEN Pair(stage_copied(pipeline[i]).v, stage_total(pipeline[i]).v)
    ELSE pipeline_back_from(pipeline, i - 1)

\* A variant of first_pipeline_progress that returns the last usable stage.
last_pipeline_progress(v) == pipeline_back_from(v.pipeline, Len(v.pipeline))

\* vm is [name, pipeline]; the pipeline is the list of the stages' progress.
first_pipeline_progress(v) == pipeline_from(v.pipeline, 1)

\* Bound: the longest pipeline.
MaxStages == 3

StageValues ==
    { NoProgress,
      Progress(Num(10), Missing, Num(5), Missing),
      Progress(Missing, Num(20), Missing, Num(7)),
      Progress(Num(10), Num(20), Num(5), Num(7)),
      Progress(Num(30), Missing, Num(0), Missing),
      Progress(Num(0), Num(20), Num(5), Missing),
      Progress(Num(10), Missing, Num(-1), Num(7)),
      Progress(Num(10), Missing, Missing, Missing),
      Progress(Missing, Missing, Num(5), Missing),
      Progress(Str(<<"1", "0">>), Missing, Num(5), Missing),
      Progress(Num(10), Missing, Str(<<"5">>), Num(7)) }

InitPipe ==
    /\ pc = "first_pipeline_progress"
    /\ vm \in {[name |-> TheVm, pipeline |-> pl] : pl \in ListsUpTo(StageValues, MaxStages)}
    /\ ret = Unused
    /\ cap = Unused /\ all_items = Unused /\ plan_filter = Unused /\ dv = Unused
    /\ vm_name = Unused /\ dvas_items = Unused /\ target_ns = Unused /\ progress = Unused

call_first_pipeline_progress ==
    /\ pc = "first_pipeline_progress"
    /\ ret' = first_pipeline_progress(vm)
    /\ pc' = "done"
    /\ UNCHANGED <<cap, all_items, plan_filter, dv, vm_name, dvas_items,
                   target_ns, vm, progress>>

NextPipe == call_first_pipeline_progress

SpecPipe == InitPipe /\ [][NextPipe]_vars

\* The stage's total, read from totalBytes or else total, is an integer > 0 and
\* its copied, read from copiedBytes or else current, is an integer >= 0.
Qualifies(st) ==
    LET total == IF st.totalBytes # Missing THEN st.totalBytes ELSE st.total
        copied == IF st.copiedBytes # Missing THEN st.copiedBytes ELSE st.current
    IN  /\ total # Missing /\ total.t = "num" /\ total.v > 0
        /\ copied # Missing /\ copied.t = "num" /\ copied.v >= 0

\* C10: first_pipeline_progress returns the (copied, total) pair of the first
\* stage, in pipeline order, that qualifies; the stages before it are skipped,
\* those after it are not consulted, and the result is None exactly when no
\* stage qualifies.
C10_FirstQualifyingStage ==
    pc = "done" =>
        LET q == {i \in 1..Len(vm.pipeline) : Qualifies(vm.pipeline[i])}
        IN  /\ (q = {} <=> ret = None)
            /\ (q # {} =>
                  LET f == CHOOSE i \in q : \A j \in q : i <= j
                      st == vm.pipeline[f]
                  IN  ret = Pair((IF st.copiedBytes # Missing THEN st.copiedBytes
                                  ELSE st.current).v,
                                 (IF st.totalBytes # Missing THEN st.totalBytes
                                  ELSE st.total).v))

\* An unusable stage (total 0) is followed by two usable stages with different
\* pairs, the first of them read from total/current.
C10_Witness ==
    /\ pc = "done"
    /\ Len(vm.pipeline) = 3
    /\ vm.pipeline[1] = Progress(Num(0), Num(20), Num(5), Missing)
    /\ vm.pipeline[2] = Progress(Missing, Num(20), Missing, Num(7))
    /\ vm.pipeline[3] = Progress(Num(10), Missing, Num(5), Missing)
    /\ ret = Pair(7, 20)

(***************************************************************************)
(* render_table and render_pretty: the progress of one VM of a migration.  *)
(* The text written is modelled by the values that are formatted into it.  *)
(***************************************************************************)
\* The PROGRESS cell of render_table: "copied/total" of the pipeline, or
\* "pct% copied/total" of the DataVolumes, or "".
BytesCell(pair) == [t |-> "bytes", copied |-> pair.copied, total |-> pair.total]
PercentCell(r) == [t |-> "percent", percent |-> r.percent, copied |-> r.copied, total |-> r.total]
EmptyCell == [t |-> "empty"]

\* `if total_b and total_b > 0`
dv_shown(r) == r.total # None /\ RatGt0(r.total)

\* A variant of table_progress that asks the DataVolumes first and the
\* pipeline only when they give nothing.
table_progress_dv_first(v, items, ns) ==
    LET r == dv_progress_for_vm(items, ns, v.name)
        mtv_prog == first_pipeline_progress(v)
    IN  IF r = Raise THEN Raise
        ELSE IF dv_shown(r) THEN PercentCell(r)
        ELSE IF mtv_prog # None THEN BytesCell(mtv_prog)
        ELSE EmptyCell

\* Lines 344-352 of render_table; Raise when dv_progress_for_vm raises.
table_progress(v, items, ns) ==
    LET mtv_prog == first_pipeline_progress(v)
    IN  IF mtv_prog # None THEN BytesCell(mtv_prog)
        ELSE LET r == dv_progress_for_vm(items, ns, v.name)
             IN  IF r = Raise THEN Raise
                 ELSE IF dv_shown(r) THEN PercentCell(r)
                 ELSE EmptyCell

\* Lines 415-419 of render_pretty: the progress written on the line of a stage
\* (prog.get("totalBytes", prog.get("total")) with Missing an absent key).
stage_line(prog) ==
    LET tbytes == IF prog.totalBytes = Missing THEN prog.total ELSE prog.totalBytes
        cbytes == IF prog.copiedBytes = Missing THEN prog.current ELSE prog.copiedBytes
    IN  IF tbytes.t = "num" /\ tbytes.v > 0 /\ cbytes.t = "num"
        THEN Pair(cbytes.v, tbytes.v)
        ELSE None

\* Lines 405-430 of render_pretty: the stage lines, and the "progress (CDI)"
\* line: absent, a percentage with bytes, or "n/a".
pretty_progress(v, items, ns) ==
    LET stages == [i \in 1..Len(v.pipeline) |-> stage_line(v.pipeline[i])]
    IN  IF first_pipeline_progress(v) # None
        THEN [t |-> "pretty", stages |-> stages, cdi |-> None]
        ELSE LET r == dv_progress_for_vm(items, ns, v.name)
             IN  IF r = Raise THEN Raise
                 ELSE IF dv_shown(r)
                 THEN [t |-> "pretty", stages |-> stages, cdi |-> PercentCell(r)]
                 ELSE [t |-> "pretty", stages |-> stages, cdi |-> EmptyCell]

\* The pipelines of the VM that is rendered.
RenderPipelines ==
    { <<>>, <<NoProgress>>,
      <<Progress(Num(10), Missing, Num(5), Missing)>>,
      <<Progress(Num(10), Missing, Num(-1), Missing)>>,
      <<Progress(Num(0), Num(20), Num(5), Missing),
        Progress(Missing, Num(20), Missing, Num(7))>> }

InitRender ==
    /\ pc = "render"
    /\ vm \in {[name |-> TheVm, pipeline |-> pl] : pl \in RenderPipelines}
    /\ vm_name = TheVm
    /\ dvas_items \in ListsUpTo(DvValues, MaxDvs)
    /\ target_ns = "tgt"
    /\ ret = Unused /\ progress = Unused
    /\ cap = Unused /\ all_items = Unused /\ plan_filter = Unused /\ dv = Unused

\* ret is the tuple dv_progress_for_vm returned, None when it was not called.
dv_call(v, items, ns) ==
    IF first_pipeline_progress(v) # None THEN None
    ELSE dv_progress_for_vm(items, ns, v.name)

render_table ==
    /\ pc = "render"
    /\ progress' = table_progress(vm, dvas_items, target_ns)
    /\ ret' = dv_call(vm, dvas_items, target_ns)
    /\ pc' = "table"
    /\ UNCHANGED <<cap, all_items, plan_filter, dv, vm_name, dvas_items, target_ns, vm>>

render_pretty ==
    /\ pc = "render"
    /\ progress' = pretty_progress(vm, dvas_items, target_ns)
    /\ ret' = dv_call(vm, dvas_items, target_ns)
    /\ pc' = "pretty"
    /\ UNCHANGED <<cap, all_items, plan_filter, dv, vm_name, dvas_items, target_ns, vm>>

NextRender == render_table \/ render_pretty

SpecRender == InitRender /\ [][NextRender]_vars

(***************************************************************************)
(* Claims about the progress that is rendered.                             *)
(***************************************************************************)
Rendered == pc \in {"table", "pretty"}

\* What the two sources give for the VM that was rendered.
PipelineResult == first_pipeline_progress(vm)
TransferResult == dv_progress_for_vm(dvas_items, target_ns, vm.name)

\* The row shows the bytes of the pipeline and nothing of the transfers.
ShowsPipeline(pair) ==
    \/ pc = "table" /\ progress = BytesCell(pair)
    \/ pc = "pretty" /\ progress # Raise /\ progress.cdi = None
                     /\ \E i \in 1..Len(progress.stages) : progress.stages[i] = pair
\* The row shows the percentage and bytes of the transfers.
ShowsTransfer(r) ==
    \/ pc = "table" /\ progress = PercentCell(r)
    \/ pc = "pretty" /\ progress # Raise /\ progress.cdi = PercentCell(r)
\* The row shows no resolved progress: the cell of the table is empty, the
\* "progress (CDI)" line reads n/a.
ShowsNothing ==
    \/ pc = "table" /\ progress = EmptyCell
    \/ pc = "pretty" /\ progress # Raise /\ progress.cdi = EmptyCell

\* C1 as stated: the transfer result is shown whenever it is not Unavailable,
\* the pipeline pair only when it is Unavailable, and nothing when neither
\* source has data.
C1_Original ==
    Rendered /\ TransferResult # Raise =>
        /\ (TransferResult # Unavailable => ShowsTransfer(TransferResult))
        /\ (TransferResult = Unavailable /\ PipelineResult # None =>
                ShowsPipeline(PipelineResult))
        /\ (TransferResult = Unavailable /\ PipelineResult = None => ShowsNothing)

\* C1 amended: the pipeline byte pair is shown whenever first_pipeline_progress
\* gives one, and then dv_progress_for_vm is not called; the transfer result
\* is shown only when the pipeline gives None; and when neither source has
\* data no progress is resolved (an empty cell, "n/a").  A VM with both a
\* usable stage and a transfer with a percentage and a capacity is shown with
\* the pipeline pair.
C1_PipelineFirst ==
    Rendered =>
        /\ (PipelineResult # None => ShowsPipeline(PipelineResult) /\ ret = None)
        /\ (PipelineResult = None /\ TransferResult \notin {Raise, Unavailable} =>
                ShowsTransfer(TransferResult) /\ ret = TransferResult)
        /\ (PipelineResult = None /\ TransferResult = Unavailable => ShowsNothing)

\* Both sources have data and the pipeline pair is in the table.
C1_Witness ==
    /\ pc = "table"
    /\ vm.pipeline = <<Progress(Num(10), Missing, Num(5), Missing)>>
    /\ TwoTransfers
    /\ TransferResult = Tuple3(Rat(100, 3), RatInt(10 * 1024), RatInt(30 * 1024))
    /\ progress = BytesCell(Pair(5, 10))

\* The VM has associated transfers, none with a progress that parses, no
\* usable pipeline stage, and dv_progress_for_vm returned.
NoneParsed ==
    /\ Rendered
    /\ PipelineResult = None
    /\ ret # Raise
    /\ Associated # {}
    /\ Parsed = {}

\* C6 as stated: the unparsable percentages are absent, not 0%: the transfers
\* give Unavailable, also when they have a capacity, and the VM shows nothing.
C6_Original == NoneParsed => ret = Unavailable /\ ShowsNothing

\* C6 amended: a progress that is missing or does not parse counts as 0%: when
\* none of the associated transfers has a progress that parses, the result is
\* (0, 0, sum of the capacities) as soon as one of them has a capacity > 0, and
\* the VM is shown at 0%; it is Unavailable, and nothing is shown, only when
\* none of them has a capacity > 0.
C6_UnparsableIsZero ==
    NoneParsed =>
        IF WithCapacity = {}
        THEN ret = Unavailable /\ ShowsNothing
        ELSE /\ ret = Tuple3(RatInt(0), RatInt(0), SumCapacity(WithCapacity))
             /\ ShowsTransfer(ret)

C6_Witness ==
    /\ pc = "table"
    /\ vm.pipeline = <<NoProgress>>
    /\ dvas_items = <<DataVolume(MetaMatch, PNA, Cap10Ki), DataVolume(MetaMatch, Missing, Cap20Ki)>>
    /\ ret = Tuple3(RatInt(0), RatInt(0), RatInt(30 * 1024))
    /\ progress = PercentCell(ret)

====
